---- MODULE Spec2Model ----
(***************************************************************************)
(* The Fibonacci circuit (chip, synthesis) and the prove / verify entry    *)
(* points of the three crates that wrap it: fibonacci_circuit, generic     *)
(* over a PlonkishComponents backend (src/circuit), plonk_fibonacci over   *)
(* halo2's create_proof / verify_proof (src/plonk), and the root crate     *)
(* halo2_fibonacci (src/src).                                              *)
(*                                                                         *)
(* Field elements are integers modulo FieldOrder.  A byte is a digit in    *)
(* 0 .. ByteBase - 1; a field element is encoded little-endian in          *)
(* ElemBytes bytes, and ByteBase^ElemBytes exceeds FieldOrder, so that     *)
(* byte strings that are no canonical encoding exist, as they do for Fr.   *)
(***************************************************************************)
EXTENDS Integers, Sequences, FiniteSets, TLC

\* ------------------------------------------------------------------ bounds
FieldOrder == 61
ByteBase == 8
ElemBytes == 2
LenBytes == 1

\* ------------------------------------------------------- program constants
\* for _i in 3..10
LoopFrom == 3
\* let k = 4usize: the circuit has 2^k rows
CircuitK == 4
LoopTo == 10
\* chip.expose_public(.., &prev_c, 2)
OutSlot == 2

Crates == {"generic", "plonk", "legacy"}

\* Value::unknown(), the value of a cell during key generation
Unknown == -1

Fr == 0 .. (FieldOrder - 1)

\* ------------------------------------------------------------------ field
\* Value<F> + Value<F>: unknown if either side is unknown
ValueAdd(a, b) ==
  IF a = Unknown \/ b = Unknown THEN Unknown ELSE (a + b) % FieldOrder

\* Fr::from_u128 / Fr::from(u64)
from_u128(i) == i % FieldOrder

\* ------------------------------------------------- byte encoding of inputs
RECURSIVE LeBytes(_, _)
\* n little-endian bytes of v
LeBytes(v, n) ==
  IF n = 0 THEN <<>> ELSE <<v % ByteBase>> \o LeBytes(v \div ByteBase, n - 1)

RECURSIVE LeValue(_)
LeValue(bytes) ==
  IF bytes = <<>> THEN 0
  ELSE Head(bytes) + ByteBase * LeValue(Tail(bytes))

RECURSIVE Reverse(_)
Reverse(q) == IF q = <<>> THEN <<>> ELSE Append(Reverse(Tail(q)), Head(q))

\* to_bytes writing the most significant byte first
to_bytes_big_endian(fp) == Reverse(LeBytes(fp, ElemBytes))

\* Fr::to_bytes: the canonical little-endian encoding
to_bytes(fp) == LeBytes(fp, ElemBytes)

\* Fr::from_bytes: CtOption, none when the bytes encode a value >= the modulus
from_bytes(bytes) ==
  IF LeValue(bytes) < FieldOrder
  THEN [some |-> TRUE, value |-> LeValue(bytes)]
  ELSE [some |-> FALSE, value |-> 0]

RECURSIVE SerializeElements(_)
SerializeElements(v) ==
  IF v = <<>> THEN <<>> ELSE to_bytes(Head(v)) \o SerializeElements(Tail(v))

\* bincode::serialize(&InputsSerialisationWrapper(v)): serialize_seq(Some(len)),
\* the length prefix, then every element's to_bytes()
Serialize(v) == LeBytes(Len(v), LenBytes) \o SerializeElements(v)

Take(s, n) == SubSeq(s, 1, n)
Drop(s, n) == SubSeq(s, n + 1, Len(s))

RECURSIVE visit_seq(_, _, _)
\* SerializableInputsVisitor::visit_seq over bincode's SeqAccess: `remaining`
\* elements are still announced by the length prefix.  next_element::<[u8; 32]>()?
\* is an error when the buffer ends early; from_bytes(..).expect("Invalid bytes")
\* panics on a non-canonical element.
visit_seq(buf, remaining, vec) ==
  IF remaining = 0 THEN [tag |-> "Ok", vec |-> vec, msg |-> <<>>]
  ELSE IF Len(buf) < ElemBytes
       THEN [tag |-> "Err", vec |-> <<>>, msg |-> <<"io error: unexpected end of file">>]
  ELSE LET fp == from_bytes(Take(buf, ElemBytes)) IN
       IF ~fp.some
       THEN [tag |-> "Panic", vec |-> <<>>, msg |-> <<"Invalid bytes">>]
       ELSE visit_seq(Drop(buf, ElemBytes), remaining - 1, Append(vec, fp.value))

\* bincode::deserialize::<InputsSerialisationWrapper>(&public_inputs): reads the
\* length prefix, then hands the elements to visit_seq; trailing bytes are ignored
Deserialize(buf) ==
  IF Len(buf) < LenBytes
  THEN [tag |-> "Err", vec |-> <<>>, msg |-> <<"io error: unexpected end of file">>]
  ELSE visit_seq(Drop(buf, LenBytes), LeValue(Take(buf, LenBytes)), <<>>)

\* --------------------------------------------------- textual circuit inputs
\* A String is a sequence of characters.  u128::MAX is scaled down to MaxU128,
\* kept below FieldOrder as u128::MAX is below the order of Fr.
MaxU128 == 59

Digits == <<"0", "1", "2", "3", "4", "5", "6", "7", "8", "9">>

IsDigit(c) == \E d \in 1 .. Len(Digits) : Digits[d] = c
DigitValue(c) == (CHOOSE d \in 1 .. Len(Digits) : Digits[d] = c) - 1

RECURSIVE ParseDigits(_, _)
\* the accumulation loop of from_str_radix: InvalidDigit, PosOverflow
ParseDigits(s, acc) ==
  IF s = <<>> THEN [ok |-> TRUE, value |-> acc]
  ELSE IF ~IsDigit(Head(s)) THEN [ok |-> FALSE, value |-> 0]
  ELSE IF acc * 10 + DigitValue(Head(s)) > MaxU128 THEN [ok |-> FALSE, value |-> 0]
  ELSE ParseDigits(Tail(s), acc * 10 + DigitValue(Head(s)))

\* u128::from_str: Empty, a lone sign, a leading '+' is accepted
u128_from_str(s) ==
  IF s = <<>> THEN [ok |-> FALSE, value |-> 0]
  ELSE IF Head(s) = "+"
       THEN (IF Tail(s) = <<>> THEN [ok |-> FALSE, value |-> 0]
             ELSE ParseDigits(Tail(s), 0))
  ELSE ParseDigits(s, 0)

\* v.iter().map(|s| u128::from_str(s).map(Fr::from_u128)).collect::<Result<Vec<_>, _>>()
ParseList(v) ==
  IF \E i \in 1 .. Len(v) : ~u128_from_str(v[i]).ok
  THEN [ok |-> FALSE, value |-> <<>>]
  ELSE [ok |-> TRUE, value |-> [i \in 1 .. Len(v) |-> from_u128(u128_from_str(v[i]).value)]]

\* deserialize_circuit_inputs that leaves out the strings that do not parse
deserialize_circuit_inputs_partial(ser_inputs) ==
  [tag |-> "Ok",
   map |-> [k \in DOMAIN ser_inputs |->
              LET v == ser_inputs[k]
                  F[n \in 0 .. Len(v)] ==
                    IF n = 0 THEN <<>>
                    ELSE IF u128_from_str(v[n]).ok
                         THEN Append(F[n - 1], from_u128(u128_from_str(v[n]).value))
                         ELSE F[n - 1]
              IN F[Len(v)]],
   msg |-> <<>>]

\* deserialize_circuit_inputs: every entry parsed, the first failure ends the
\* collect with that error and no map
deserialize_circuit_inputs(ser_inputs) ==
  IF \E k \in DOMAIN ser_inputs : ~ParseList(ser_inputs[k]).ok
  THEN [tag |-> "Err", map |-> <<>>, msg |-> <<"Failed to parse input as u128">>]
  ELSE [tag |-> "Ok",
        map |-> [k \in DOMAIN ser_inputs |-> ParseList(ser_inputs[k]).value],
        msg |-> <<>>]

\* ---------------------------------------------------------------- circuit
\* A cell handle: column and absolute row.  SimpleFloorPlanner lays the one-row
\* regions out on successive rows, in the order they are assigned.
Cell(col, row) == [col |-> col, row |-> row]

\* configure with a second gate, selector * (a - c)
configure_two_gates ==
  [advice |-> <<"a", "b", "c">>,
   selector |-> <<"selector">>,
   instance |-> <<"instance">>,
   equality |-> <<"a", "b", "c", "instance">>,
   gates |-> <<[name |-> "add", selector |-> "selector", rotation |-> 0,
                a |-> 1, b |-> 1, c |-> -1],
               [name |-> "add", selector |-> "selector", rotation |-> 0,
                a |-> 1, b |-> 0, c |-> -1]>>]

\* FibonacciChip::configure: the columns it allocates, in order, the columns it
\* enables equality on, in order, and the gates it creates. The gate "add" is
\* selector * (a + b - c), every column queried at Rotation::cur(), written here
\* by the coefficients of a, b and c. The record is the FibonacciConfig returned.
configure ==
  [advice |-> <<"a", "b", "c">>,
   selector |-> <<"selector">>,
   instance |-> <<"instance">>,
   equality |-> <<"a", "b", "c", "instance">>,
   gates |-> <<[name |-> "add", selector |-> "selector", rotation |-> 0,
                a |-> 1, b |-> 1, c |-> -1]>>]

\* What a Layouter has collected: the advice rows, the rows on which the selector
\* was enabled (one entry per enable call) and the equality constraints (one
\* entry per constraint, in the order they were added).
EmptyLayout == [advice |-> <<>>, selector |-> <<>>, copies |-> <<>>]

\* the instance column without padding: unknown past the end of the given vector
InstanceValue_unpadded(phase, inst, row) ==
  IF phase = "keygen" THEN Unknown
  ELSE IF row < Len(inst) THEN inst[row + 1] ELSE Unknown

\* The value of the instance column at `row` as the region sees it: unknown while
\* generating keys; when proving, the given value, the column being padded with 0.
InstanceValue(phase, inst, row) ==
  IF phase = "keygen" THEN Unknown
  ELSE IF row < Len(inst) THEN inst[row + 1] ELSE 0

\* assign_first_row with a read from instance row 1 and b from instance row 0
assign_first_row_swapped(ls, phase, inst) ==
  LET row == Len(ls.advice)
      a == InstanceValue(phase, inst, 1)
      b == InstanceValue(phase, inst, 0)
      c == ValueAdd(a, b)
  IN [ls |-> [advice |-> Append(ls.advice, [a |-> a, b |-> b, c |-> c]),
              selector |-> Append(ls.selector, row),
              copies |-> ls.copies \o
                         << <<Cell("instance", 1), Cell("a", row)>>,
                            <<Cell("instance", 0), Cell("b", row)>> >>],
      a_cell |-> Cell("a", row),
      b_cell |-> Cell("b", row),
      c_cell |-> Cell("c", row)]

\* assign_first_row with b read from instance row 2
assign_first_row_from_out(ls, phase, inst) ==
  LET row == Len(ls.advice)
      a == InstanceValue(phase, inst, 0)
      b == InstanceValue(phase, inst, 2)
      c == ValueAdd(a, b)
  IN [ls |-> [advice |-> Append(ls.advice, [a |-> a, b |-> b, c |-> c]),
              selector |-> Append(ls.selector, row),
              copies |-> ls.copies \o
                         << <<Cell("instance", 0), Cell("a", row)>>,
                            <<Cell("instance", 1), Cell("b", row)>> >>],
      a_cell |-> Cell("a", row),
      b_cell |-> Cell("b", row),
      c_cell |-> Cell("c", row)]

\* assign_first_row with c assigned a instead of a + b
assign_first_row_wrong_sum(ls, phase, inst) ==
  LET row == Len(ls.advice)
      a == InstanceValue(phase, inst, 0)
      b == InstanceValue(phase, inst, 1)
  IN [ls |-> [advice |-> Append(ls.advice, [a |-> a, b |-> b, c |-> a]),
              selector |-> Append(ls.selector, row),
              copies |-> ls.copies \o
                         << <<Cell("instance", 0), Cell("a", row)>>,
                            <<Cell("instance", 1), Cell("b", row)>> >>],
      a_cell |-> Cell("a", row),
      b_cell |-> Cell("b", row),
      c_cell |-> Cell("c", row)]

\* FibonacciChip::assign_first_row
assign_first_row(ls, phase, inst) ==
  LET row == Len(ls.advice)
      a == InstanceValue(phase, inst, 0)
      b == InstanceValue(phase, inst, 1)
      c == ValueAdd(a, b)
  IN [ls |-> [advice |-> Append(ls.advice, [a |-> a, b |-> b, c |-> c]),
              selector |-> Append(ls.selector, row),
              copies |-> ls.copies \o
                         << <<Cell("instance", 0), Cell("a", row)>>,
                            <<Cell("instance", 1), Cell("b", row)>> >>],
      a_cell |-> Cell("a", row),
      b_cell |-> Cell("b", row),
      c_cell |-> Cell("c", row)]

\* AssignedCell::value(): the value assigned to an advice cell
CellValue(ls, cell) ==
  LET r == ls.advice[cell.row + 1] IN
  IF cell.col = "a" THEN r.a ELSE IF cell.col = "b" THEN r.b ELSE r.c

\* assign_row that assigns no row and hands back the cell it was given
assign_row_no_row(ls, prev_b, prev_c) == [ls |-> ls, c_cell |-> prev_c]

\* assign_row that does not enable the selector on its row
assign_row_no_selector(ls, prev_b, prev_c) ==
  LET row == Len(ls.advice)
      a == CellValue(ls, prev_b)
      b == CellValue(ls, prev_c)
      c == ValueAdd(CellValue(ls, prev_b), CellValue(ls, prev_c))
  IN [ls |-> [advice |-> Append(ls.advice, [a |-> a, b |-> b, c |-> c]),
              selector |-> ls.selector,
              copies |-> ls.copies \o
                         << <<prev_b, Cell("a", row)>>,
                            <<prev_c, Cell("b", row)>> >>],
      c_cell |-> Cell("c", row)]

\* assign_row that assigns to b the value of prev_b instead of prev_c
assign_row_stale_b(ls, prev_b, prev_c) ==
  LET row == Len(ls.advice)
      a == CellValue(ls, prev_b)
      b == CellValue(ls, prev_b)
      c == ValueAdd(CellValue(ls, prev_b), CellValue(ls, prev_c))
  IN [ls |-> [advice |-> Append(ls.advice, [a |-> a, b |-> b, c |-> c]),
              selector |-> Append(ls.selector, row),
              copies |-> ls.copies \o
                         << <<prev_b, Cell("a", row)>>,
                            <<prev_c, Cell("b", row)>> >>],
      c_cell |-> Cell("c", row)]

\* assign_row that enables the selector only where the sum it assigns is not zero
assign_row_skips_zero(ls, prev_b, prev_c) ==
  LET row == Len(ls.advice)
      a == CellValue(ls, prev_b)
      b == CellValue(ls, prev_c)
      c == ValueAdd(CellValue(ls, prev_b), CellValue(ls, prev_c))
  IN [ls |-> [advice |-> Append(ls.advice, [a |-> a, b |-> b, c |-> c]),
              selector |-> IF c = 0 THEN ls.selector ELSE Append(ls.selector, row),
              copies |-> ls.copies \o
                         << <<prev_b, Cell("a", row)>>,
                            <<prev_c, Cell("b", row)>> >>],
      c_cell |-> Cell("c", row)]

\* assign_row that assigns a and b without copying them from the cells it is given
assign_row_unconstrained(ls, prev_b, prev_c) ==
  LET row == Len(ls.advice)
      a == CellValue(ls, prev_b)
      b == CellValue(ls, prev_c)
      c == ValueAdd(CellValue(ls, prev_b), CellValue(ls, prev_c))
  IN [ls |-> [advice |-> Append(ls.advice, [a |-> a, b |-> b, c |-> c]),
              selector |-> Append(ls.selector, row),
              copies |-> ls.copies],
      c_cell |-> Cell("c", row)]

\* assign_row with c assigned prev_c + prev_c instead of prev_b + prev_c
assign_row_wrong_sum(ls, prev_b, prev_c) ==
  LET row == Len(ls.advice)
      a == CellValue(ls, prev_b)
      b == CellValue(ls, prev_c)
      c == ValueAdd(CellValue(ls, prev_c), CellValue(ls, prev_c))
  IN [ls |-> [advice |-> Append(ls.advice, [a |-> a, b |-> b, c |-> c]),
              selector |-> Append(ls.selector, row),
              copies |-> ls.copies \o
                         << <<prev_b, Cell("a", row)>>,
                            <<prev_c, Cell("b", row)>> >>],
      c_cell |-> Cell("c", row)]

\* FibonacciChip::assign_row
assign_row(ls, prev_b, prev_c) ==
  LET row == Len(ls.advice)
      a == CellValue(ls, prev_b)
      b == CellValue(ls, prev_c)
      c == ValueAdd(CellValue(ls, prev_b), CellValue(ls, prev_c))
  IN [ls |-> [advice |-> Append(ls.advice, [a |-> a, b |-> b, c |-> c]),
              selector |-> Append(ls.selector, row),
              copies |-> ls.copies \o
                         << <<prev_b, Cell("a", row)>>,
                            <<prev_c, Cell("b", row)>> >>],
      c_cell |-> Cell("c", row)]

\* expose_public that binds the c cell of row 0 whatever cell it is given
expose_public_first_row(ls, cell, row) ==
  [ls EXCEPT !.copies = Append(ls.copies, <<Cell("c", 0), Cell("instance", row)>>)]

\* expose_public that binds the instance row after the one it is given
expose_public_next_slot(ls, cell, row) ==
  [ls EXCEPT !.copies = Append(ls.copies, <<cell, Cell("instance", row + 1)>>)]

\* expose_public that adds no constraint
expose_public_unbound(ls, cell, row) == ls

\* FibonacciChip::expose_public: layouter.constrain_instance(cell, instance, row)
expose_public(ls, cell, row) ==
  [ls EXCEPT !.copies = Append(ls.copies, <<cell, Cell("instance", row)>>)]

\* the loop body keeping prev_b as it was
NextPrevB_kept(prev_b, prev_c) == prev_b

\* In the loop body: prev_b = prev_c
NextPrevB(prev_b, prev_c) == prev_c

RECURSIVE SynthesizeLoop(_, _, _, _)
\* for _i in 3..10 { c_cell = assign_row(prev_b, prev_c); prev_b = prev_c; prev_c = c_cell }
SynthesizeLoop(ls, prev_b, prev_c, i) ==
  IF i >= LoopTo THEN [ls |-> ls, prev_b |-> prev_b, prev_c |-> prev_c]
  ELSE LET r == assign_row(ls, prev_b, prev_c) IN
       SynthesizeLoop(r.ls, NextPrevB(prev_b, prev_c), r.c_cell, i + 1)

\* FibonacciCircuit::synthesize, run to its end
synthesize(phase, inst) ==
  LET first == assign_first_row(EmptyLayout, phase, inst)
      loop == SynthesizeLoop(first.ls, first.b_cell, first.c_cell, LoopFrom)
  IN expose_public(loop.ls, loop.prev_c, OutSlot)

\* ------------------------------------------------------ constraint system
\* A row of the advice columns; a row that no region assigned holds zeros
AdviceRow(advice, row) ==
  IF row < Len(advice) THEN advice[row + 1] ELSE [a |-> 0, b |-> 0, c |-> 0]

\* The value of either kind of cell under the public inputs `inst`; the instance
\* column is padded with zeros
ValueAt(advice, inst, cell) ==
  IF cell.col = "instance"
  THEN (IF cell.row < Len(inst) THEN inst[cell.row + 1] ELSE 0)
  ELSE LET r == AdviceRow(advice, cell.row) IN
       IF cell.col = "a" THEN r.a ELSE IF cell.col = "b" THEN r.b ELSE r.c

\* create_gate("add", s * (a + b - c)): the gates of the constraint system hold
\* on a row where the selector is on
GateHolds(advice, row) ==
  LET r == AdviceRow(advice, row) IN
  \A g \in 1 .. Len(configure.gates) :
    (configure.gates[g].a * r.a + configure.gates[g].b * r.b
       + configure.gates[g].c * r.c) % FieldOrder = 0

\* the gate on every enabled row and every equality constraint
Satisfied(advice, shape, inst) ==
  /\ \A i \in 1 .. Len(shape.selector) : GateHolds(advice, shape.selector[i])
  /\ \A i \in 1 .. Len(shape.copies) :
        ValueAt(advice, inst, shape.copies[i][1]) = ValueAt(advice, inst, shape.copies[i][2])

\* ---------------------------------------------------------------- backend
\* HyperPlonk<Pcs> behind fibonacci_circuit and the root crate, halo2's
\* create_proof / verify_proof behind plonk_fibonacci
BackendOf(c) == IF c = "plonk" THEN "halo2" ELSE "hyperplonk"

\* The public input the key generator of each crate builds its circuit with
KeygenInput(c) == IF c = "plonk" THEN <<>> ELSE <<1, 1, 55>>

\* preprocess / keygen_vk: the circuit shape, from a synthesis without witness
VerifierParam(c) ==
  LET ls == synthesize("keygen", KeygenInput(c)) IN
  [selector |-> ls.selector, copies |-> ls.copies]

\* The seeds a random number generator may be started from: 0 .. MaxSeed
MaxSeed == 1

\* std_rng() reseeded from the operating system in every call
std_rng_reseeded == [seed |-> <<0>>, draws |-> 0 .. MaxSeed]

\* std_rng(): StdRng::from_seed(Default::default()), the same stream in every call
std_rng == [seed |-> <<0>>, draws |-> {0}]

\* seeded_std_rng(): StdRng::seed_from_u64(s), the stream fixed by the seed s
seeded_std_rng(s) == [seed |-> <<s>>, draws |-> {s}]

\* OsRng: no seed, any stream
OsRng == [seed |-> <<>>, draws |-> 0 .. MaxSeed]

\* The generators a prover call may be given: prove of fibonacci_circuit and of
\* the root crate passes std_rng(), the tests that call the backend on a circuit
\* pass seeded_std_rng(), plonk_fibonacci passes OsRng
Rngs(c, entry) ==
  IF c = "plonk" THEN {OsRng}
  ELSE IF entry = "prove" THEN {std_rng}
  ELSE { seeded_std_rng(s) : s \in 0 .. MaxSeed }

\* What the prover wrote into the transcript: commitments to the advice columns,
\* blinded with what it drew from its random number generator
ProofOf(advice, blind) == [wellformed |-> TRUE, advice |-> advice, blind |-> blind]

\* Bytes that are no proof: the transcript cannot be read
MalformedProof == [wellformed |-> FALSE, advice |-> <<>>, blind |-> 0]

\* The consistency failure the backend reports for a proof that does not fit the
\* public inputs
ConsistencyError(backend) ==
  IF backend = "hyperplonk"
  THEN "InvalidSumcheck(\"Consistency failure at round 1\")"
  ELSE "ConstraintSystemFailure"

\* The failure to read the proof from the transcript
TranscriptError(backend) ==
  IF backend = "hyperplonk" THEN "Transcript(UnexpectedEof)" ELSE "Transcript"

\* PC::ProvingBackend::verify / verify_proof: "Ok" or the backend's error
BackendVerify(backend, vp, inst, proof) ==
  IF ~proof.wellformed THEN TranscriptError(backend)
  ELSE IF Satisfied(proof.advice, vp, inst) THEN "Ok"
  ELSE ConsistencyError(backend)

\* ------------------------------------------------------------ call results
\* What a call hands back: Ok((proof, inputs)) of prove, Ok(bool) of verify, an
\* Err(FibonacciError) with its message from the outermost wrapper inwards, or a
\* panic that unwinds through the caller.  `proof` and `inputs` hold one element
\* when the call returned them and none otherwise.
NoResult == [tag |-> "None", accept |-> FALSE, proof |-> <<>>, inputs |-> <<>>, msg |-> <<>>]
OkProof(proof, inputs) ==
  [tag |-> "Ok", accept |-> FALSE, proof |-> <<proof>>, inputs |-> <<inputs>>, msg |-> <<>>]
OkBool(b) == [tag |-> "Ok", accept |-> b, proof |-> <<>>, inputs |-> <<>>, msg |-> <<>>]
Err(msg) == [tag |-> "Err", accept |-> FALSE, proof |-> <<>>, inputs |-> <<>>, msg |-> msg]
Panic(msg) == [tag |-> "Panic", accept |-> FALSE, proof |-> <<>>, inputs |-> <<>>, msg |-> msg]

\* One call of the backend: which function, the public inputs handed to it and
\* what it returned ("Pending" while it runs)
BackendCall(fn, inst, res) == [fn |-> fn, instance |-> inst, result |-> res]

\* ------------------------------------------------------------------ prove
\* the public input built with the declared output in slot 0
PublicInputOf_out_first(map) ==
  IF "out" \notin DOMAIN map \/ Len(map["out"]) = 0
  THEN [ok |-> FALSE, value |-> <<>>]
  ELSE [ok |-> TRUE, value |-> <<map["out"][1], from_u128(1), from_u128(1)>>]

\* the lookup of `out` falling back to a default value instead of failing
PublicInputOf_or_default(map) ==
  IF "out" \notin DOMAIN map \/ Len(map["out"]) = 0
  THEN [ok |-> TRUE, value |-> <<from_u128(1), from_u128(1), 0>>]
  ELSE [ok |-> TRUE, value |-> <<from_u128(1), from_u128(1), map["out"][1]>>]

\* inputs.get("out")?.get(0)? and vec![a, b, out] with a = b = Fr::from(1):
\* the error, or the public input the circuit is built with
PublicInputOf(map) ==
  IF "out" \notin DOMAIN map \/ Len(map["out"]) = 0
  THEN [ok |-> FALSE, value |-> <<>>]
  ELSE [ok |-> TRUE, value |-> <<from_u128(1), from_u128(1), map["out"][1]>>]

\* generate_halo2_proof up to the backend call (the message is the source's
\* "Failed to get `out` value", written here without the backquotes).  fibonacci_circuit and the root
\* crate return the error to prove_with_params / prove, which wrap it; in
\* plonk_fibonacci prove_with_params itself looks `out` up.
generate_halo2_proof(c, map) ==
  LET pi == PublicInputOf(map) IN
  IF ~pi.ok
  THEN [synth |-> FALSE, instance |-> <<>>,
        result |-> IF c = "plonk"
                   THEN Err(<<"Failed to get out value">>)
                   ELSE Err(<<"Failed to generate the proof: ", "Failed to get out value">>)]
  ELSE [synth |-> TRUE, instance |-> pi.value, result |-> NoResult]

\* prove_with_params: deserialize_circuit_inputs, then generate_halo2_proof
prove_with_params(c, input) ==
  LET d == deserialize_circuit_inputs(input) IN
  IF d.tag = "Err"
  THEN [synth |-> FALSE, instance |-> <<>>,
        result |-> Err(<<"Failed to deserialize circuit inputs: ">> \o d.msg)]
  ELSE generate_halo2_proof(c, d.map)

\* io::read_srs_path(..) and load_from_file(..).unwrap() / read_pk / ProvingKey::read:
\* a file that cannot be opened or decoded panics
LoadKeys(srsOk, keyOk) ==
  IF ~srsOk THEN Panic(<<"read_srs_path: unwrap on Err">>)
  ELSE IF ~keyOk THEN Panic(<<"load_from_file: unwrap on Err">>)
  ELSE NoResult

\* prove, up to the backend call.  fibonacci_circuit and plonk_fibonacci load the
\* SRS and the proving key first; the root crate deserializes the inputs first.
prove(c, input, srsOk, pkOk) ==
  LET keys == LoadKeys(srsOk, pkOk)
      failed == [synth |-> FALSE, instance |-> <<>>, result |-> keys]
  IN IF c = "legacy"
     THEN LET d == deserialize_circuit_inputs(input) IN
          IF d.tag = "Err"
          THEN [synth |-> FALSE, instance |-> <<>>,
                result |-> Err(<<"Failed to deserialize circuit inputs: ">> \o d.msg)]
          ELSE IF keys.tag = "Panic" THEN failed
          ELSE generate_halo2_proof(c, d.map)
     ELSE IF keys.tag = "Panic" THEN failed
          ELSE prove_with_params(c, input)

\* The rest of prove once the backend has returned the proof:
\* Ok((proof, bincode::serialize(&InputsSerialisationWrapper(inputs))))
prove_return(proof, inst) == OkProof(proof, Serialize(inst))

\* ----------------------------------------------------------------- verify
\* verify_halo2_proof: fibonacci_circuit maps the backend's result to Ok(true) or
\* an error; plonk_fibonacci returns Ok(is_ok); the root crate prints the result
\* and returns Ok(true)
verify_halo2_proof(c, proof, inst) ==
  LET r == BackendVerify(BackendOf(c), VerifierParam(c), inst, proof)
      res == IF c = "generic"
             THEN (IF r = "Ok" THEN OkBool(TRUE)
                   ELSE Err(<<"Verifying proof error: ", r>>))
             ELSE IF c = "plonk" THEN OkBool(r = "Ok")
             ELSE OkBool(TRUE)
  IN [result |-> res, backend |-> <<BackendCall("verify", inst, r)>>]

\* bincode::deserialize::<InputsSerialisationWrapper>(&public_inputs)
\*     .map_err(|e| FibonacciError(e.to_string()))?.0
DecodeInputs(buf) ==
  LET d == Deserialize(buf) IN
  IF d.tag = "Err" THEN [vec |-> <<>>, result |-> Err(d.msg)]
  ELSE IF d.tag = "Panic" THEN [vec |-> <<>>, result |-> Panic(d.msg)]
  ELSE [vec |-> d.vec, result |-> NoResult]

\* verify_with_params: decode the public inputs, then verify_halo2_proof with
\* .map_err(|e| FibonacciError(format!("Verification failed: {}", e)))?
verify_with_params(c, proof, buf) ==
  LET d == DecodeInputs(buf) IN
  IF d.result.tag # "None" THEN [result |-> d.result, backend |-> <<>>]
  ELSE LET v == verify_halo2_proof(c, proof, d.vec) IN
       IF v.result.tag = "Err"
       THEN [result |-> Err(<<"Verification failed: ">> \o v.result.msg),
             backend |-> v.backend]
       ELSE v

\* verify.  fibonacci_circuit and plonk_fibonacci load the SRS and the verifying
\* key first; the root crate decodes the public inputs first and unwraps the
\* result of verify_halo2_proof.
verify(c, proof, buf, srsOk, vkOk) ==
  LET keys == LoadKeys(srsOk, vkOk) IN
  IF c = "legacy"
  THEN LET d == DecodeInputs(buf) IN
       IF d.result.tag # "None" THEN [result |-> d.result, backend |-> <<>>]
       ELSE IF keys.tag = "Panic" THEN [result |-> keys, backend |-> <<>>]
       ELSE verify_halo2_proof(c, proof, d.vec)
  ELSE IF keys.tag = "Panic" THEN [result |-> keys, backend |-> <<>>]
       ELSE verify_with_params(c, proof, buf)

\* ------------------------------------------------------- inputs of the calls
\* Strings a caller may put into the input map
Strings ==
  { <<"5", "5">>, <<"5", "6">>, <<"1">>, <<"+", "2">>,
    <<>>, <<"5", "x">>, <<"6", "0">> }

\* The lists of an input map
StringLists ==
  {<<>>} \cup { <<t>> : t \in Strings } \cup { << <<"5", "5">>, <<"1">> >> }

\* Input maps: "out" absent or present, with or without another entry
InputMaps ==
  { <<>> }
  \cup { [k \in {"out"} |-> v] : v \in StringLists }
  \cup { [k \in {"x"} |-> v] : v \in { << <<"1">> >>, << <<"5", "x">> >> } }
  \cup { [k \in {"out", "x"} |-> IF k = "out" THEN v ELSE << <<"1">> >>] :
           v \in { <<>>, << <<"5", "5">> >> } }

\* Input maps handed to deserialize_circuit_inputs alone: every pair of lists
\* under the keys "out" and "x", either key present or absent
ParseMaps ==
  { <<>> }
  \cup { [k \in {"out"} |-> v] : v \in StringLists }
  \cup { [k \in {"x"} |-> v] : v \in StringLists }
  \cup { [k \in {"out", "x"} |-> IF k = "out" THEN v ELSE w] :
           v \in StringLists, w \in StringLists }

\* Seeds and public input vectors for a circuit built directly: every declared
\* output for each pair of seeds, and vectors that are not of length 3
SeedValues == {0, 1, FieldOrder - 1}

PublicInputs ==
  { <<x, y, z>> : x \in SeedValues, y \in SeedValues, z \in Fr }
  \cup { <<>>, <<1, 1>>, <<1, 1, 55, 0>> }

\* The public inputs of the proofs that are handed on to a verifier
CircuitInputs ==
  { <<1, 1, 55>>, <<1, 1, 56>>, <<0, 0, 0>>, <<0, 1, 34>>, <<FieldOrder - 1, 1, 13>>,
    <<>>, <<1, 1>>, <<1, 1, 55, 0>> }

\* The states of the files holding the SRS and the key
KeyFiles == { <<TRUE, TRUE>>, <<FALSE, TRUE>>, <<TRUE, FALSE>> }

\* Public input vectors a verifier may assert, given the one a proof was made for
Tampered(v) ==
  IF v = <<>> THEN <<>>
  ELSE [v EXCEPT ![Len(v)] = (v[Len(v)] + 1) % FieldOrder]

VerifierVectors(v) ==
  {v, Tampered(v)} \cup (IF v = <<>> THEN {} ELSE { Take(v, Len(v) - 1) })

\* The encoding of v with its last element replaced by bytes that are no
\* canonical encoding
NonCanonical(v) ==
  LET buf == Serialize(v) IN
  IF v = <<>> THEN buf
  ELSE Take(buf, Len(buf) - ElemBytes) \o [j \in 1 .. ElemBytes |-> ByteBase - 1]

\* Encoded public inputs a caller may hand to verify
VerifierBuffers(v) ==
  { Serialize(w) : w \in VerifierVectors(v) }
  \cup { Take(Serialize(v), Len(Serialize(v)) - 1), NonCanonical(v), <<>> }

\* ------------------------------------------------------------------ state
VARIABLES
  crate,      \* the crate whose entry points are called
  pc,         \* where the current call stands
  op,         \* the operation of the current call
  args,       \* its arguments
  instance,   \* the public input of the circuit being synthesized
  config,     \* the FibonacciConfig the chip was constructed with
  layout,     \* what the layouter has collected so far
  prev_b,     \* synthesize: the local prev_b
  prev_c,     \* synthesize: the local prev_c
  i,          \* synthesize: the loop variable _i
  backend,    \* the backend call made by the current call, if any
  result,     \* what the current call returned
  held,       \* the proof and public inputs the caller got from the last prover call
  prior,      \* what the caller saw of the verifier call before the current one
  reqs,       \* the locals of each of the requests that run concurrently
  setup       \* the calls of setup_keys and the key generators they spawned

\* the state of the caller that makes one call after another
sequential ==
  <<pc, op, args, instance, config, layout, prev_b, prev_c, i, backend, result, held, prior>>

vars == <<crate, sequential, reqs, setup>>

NoCell == Cell("none", 0)
NoArgs == [input |-> <<>>, proof |-> <<>>, inputs |-> <<>>, keys |-> <<TRUE, TRUE>>]

\* The number of requests that run concurrently
NumRequests == 2
Requests == 1 .. NumRequests

\* A request that has not started: nothing of a call exists yet
IdleRequest ==
  [pc |-> "idle", op |-> "none", instance |-> <<>>, given |-> <<>>, transcript |-> <<>>,
   layout |-> EmptyLayout, prev_b |-> NoCell, prev_c |-> NoCell, i |-> LoopFrom,
   blind |-> 0, result |-> NoResult]

\* The threads of one process that call setup_keys: 1 .. NumCallers
NumCallers == 2
Callers == 1 .. NumCallers

\* The calls of setup_keys one process makes: at most MaxSetupCalls
MaxSetupCalls == 3

\* setup_keys of fibonacci_circuit makes its Once in the call, let once =
\* Once::new(); the setup_keys of the root crate's integration test uses
\* static INIT: Once
OnceIsStatic(c) == c = "legacy"

\* a thread outside setup_keys
IdleCaller == [pc |-> "idle", once |-> "none", child |-> 0]

\* A process before any call of setup_keys: INIT as Once::new() makes it, no
\* child process
NoSetup ==
  [INIT |-> "new",
   callers |-> [t \in Callers |-> IdleCaller],
   children |-> <<>>,
   calls |-> 0]

\* the state of the Once that the call of thread t uses
OnceState(t) == IF OnceIsStatic(crate) THEN setup.INIT ELSE setup.callers[t].once

\* the same Once set to state v
SetOnce(s, t, v) ==
  IF OnceIsStatic(crate) THEN [s EXCEPT !.INIT = v] ELSE [s EXCEPT !.callers[t].once = v]

Init ==
  /\ crate \in Crates
  /\ pc = "idle"
  /\ op = "none"
  /\ args = NoArgs
  /\ instance = <<>>
  /\ config = configure
  /\ layout = EmptyLayout
  /\ prev_b = NoCell
  /\ prev_c = NoCell
  /\ i = LoopFrom
  /\ backend = <<>>
  /\ result = NoResult
  /\ held = <<>>
  /\ prior = <<>>
  /\ reqs = [r \in Requests |-> IdleRequest]
  /\ setup = NoSetup

\* ----------------------------------------------------------------- prover
\* prove(srs_key_path, proving_key_path, input), up to the backend call
StartProve(input, keys) ==
  /\ pc = "idle"
  /\ LET p == prove(crate, input, keys[1], keys[2]) IN
       /\ op' = "prove"
       /\ args' = [NoArgs EXCEPT !.input = input, !.keys = keys]
       /\ held' = <<>>
       /\ config' = configure
       /\ layout' = EmptyLayout
       /\ prev_b' = NoCell
       /\ prev_c' = NoCell
       /\ i' = LoopFrom
       /\ instance' = p.instance
       /\ result' = p.result
       /\ IF p.synth
          THEN /\ pc' = "first_row"
               /\ backend' = <<BackendCall("prove", p.instance, "Pending")>>
          ELSE /\ pc' = "done"
               /\ backend' = <<>>
  /\ UNCHANGED <<crate, reqs, setup>>

\* A first call of prove
ProveCall(input, keys) ==
  /\ StartProve(input, keys)
  /\ prior' = <<>>

\* What the caller keeps of the proof it holds when it asks for another one
Earlier ==
  <<[result |-> OkProof(held[1].proof, held[1].returned),
     backend |-> <<BackendCall("prove", held[1].instance, "Ok")>>,
     proof |-> <<held[1].proof>>,
     seed |-> held[1].seed,
     via |-> held[1].via]>>

\* prove called again by a caller that holds the proof of an earlier call
ProveAgainCall(input, keys) ==
  /\ held # <<>>
  /\ StartProve(input, keys)
  /\ prior' = Earlier

\* A proof made for a circuit with the given public input: the backend's prove on
\* FibonacciCircuit { public_input } (test_utils), generate_halo2_proof(params, pk,
\* circuit, public_inputs) of plonk_fibonacci
StartProveCircuit(inst) ==
  /\ pc = "idle"
  /\ op' = "circuit"
  /\ args' = [NoArgs EXCEPT !.inputs = inst]
  /\ held' = <<>>
  /\ config' = configure
  /\ layout' = EmptyLayout
  /\ prev_b' = NoCell
  /\ prev_c' = NoCell
  /\ i' = LoopFrom
  /\ instance' = inst
  /\ result' = NoResult
  /\ pc' = "first_row"
  /\ backend' = <<BackendCall("prove", inst, "Pending")>>
  /\ UNCHANGED <<crate, reqs, setup>>

ProveCircuitCall(inst) ==
  /\ StartProveCircuit(inst)
  /\ prior' = <<>>

\* the same, by a caller that holds the proof of an earlier call
ProveCircuitAgainCall(inst) ==
  /\ held # <<>>
  /\ StartProveCircuit(inst)
  /\ prior' = Earlier

\* synthesize: chip.assign_first_row(..)?
AssignFirstRow ==
  /\ pc = "first_row"
  /\ LET r == assign_first_row(layout, "prove", instance) IN
       /\ layout' = r.ls
       /\ prev_b' = r.b_cell
       /\ prev_c' = r.c_cell
  /\ i' = LoopFrom
  /\ pc' = "next_row"
  /\ UNCHANGED <<reqs, setup, crate, config, op, args, instance, backend, result, held, prior>>

\* synthesize: one iteration of for _i in 3..10
AssignRow ==
  /\ pc = "next_row"
  /\ i < LoopTo
  /\ LET r == assign_row(layout, prev_b, prev_c) IN
       /\ layout' = r.ls
       /\ prev_b' = NextPrevB(prev_b, prev_c)
       /\ prev_c' = r.c_cell
  /\ i' = i + 1
  /\ UNCHANGED <<reqs, setup, crate, config, pc, op, args, instance, backend, result, held, prior>>

\* synthesize: the loop is over; chip.expose_public(.., &prev_c, 2)?; Ok(())
ExposePublic ==
  /\ pc = "next_row"
  /\ i >= LoopTo
  /\ layout' = expose_public(layout, prev_c, OutSlot)
  /\ pc' = "synthesized"
  /\ UNCHANGED <<reqs, setup, crate, config, op, args, instance, prev_b, prev_c, i, backend, result, held, prior>>

\* The errors a layouter may return from a region assignment or from
\* constrain_instance
LayouterErrors == {"Synthesis", "NotEnoughRowsAvailable"}

\* synthesize with a layouter that fails: the step at hand returns Err(e) and the
\* `?` returns it from synthesize
SynthesisError(e) ==
  /\ pc \in {"first_row", "next_row"}
  /\ result' = Err(<<e>>)
  /\ pc' = "failed"
  /\ UNCHANGED <<reqs, setup, crate, config, op, args, instance, layout, prev_b, prev_c, i, backend, held, prior>>

\* The backend returns the proof (it commits to the witness and does not check
\* it); the transcript becomes the proof; prove serializes the public inputs
ProveReturn ==
  /\ pc = "synthesized"
  /\ \E rng \in Rngs(crate, op) : \E blind \in rng.draws :
       LET proof == ProofOf(layout.advice, blind)
           res == IF op = "prove" THEN prove_return(proof, instance)
                  ELSE OkProof(proof, instance)
       IN /\ result' = res
          /\ held' = <<[proof |-> proof, instance |-> instance,
                        returned |-> res.inputs[1], via |-> op, seed |-> rng.seed]>>
  /\ backend' = <<BackendCall("prove", instance, "Ok")>>
  /\ pc' = "done"
  /\ UNCHANGED <<reqs, setup, crate, config, op, args, instance, layout, prev_b, prev_c, i, prior>>

\* --------------------------------------------------------------- verifier
HeldInstance == IF held = <<>> THEN <<1, 1, 55>> ELSE held[1].instance
HeldProofs == {MalformedProof} \cup (IF held = <<>> THEN {} ELSE {held[1].proof})

\* verify(srs_key_path, verifying_key_path, proof, public_inputs)
VerifyCall(proof, buf, keys) ==
  /\ pc = "idle"
  /\ LET v == verify(crate, proof, buf, keys[1], keys[2]) IN
       /\ result' = v.result
       /\ backend' = v.backend
  /\ op' = "verify"
  /\ args' = [NoArgs EXCEPT !.proof = <<proof>>, !.inputs = buf, !.keys = keys]
  /\ pc' = "done"
  /\ UNCHANGED <<reqs, setup, crate, config, instance, layout, prev_b, prev_c, i, held, prior>>

\* verify_halo2_proof(srs, vk, proof, inputs), called with loaded keys
VerifyProofCall(proof, inst) ==
  /\ pc = "idle"
  /\ LET v == verify_halo2_proof(crate, proof, inst) IN
       /\ result' = v.result
       /\ backend' = v.backend
  /\ op' = "verify_halo2_proof"
  /\ args' = [NoArgs EXCEPT !.proof = <<proof>>, !.inputs = inst]
  /\ pc' = "done"
  /\ UNCHANGED <<reqs, setup, crate, config, instance, layout, prev_b, prev_c, i, held, prior>>

VerifierOps == {"verify", "verify_halo2_proof"}

\* The caller takes the result; the next call may start
Return ==
  /\ pc \in {"done", "failed"}
  /\ pc' = "idle"
  /\ op' = "none"
  /\ args' = NoArgs
  /\ instance' = <<>>
  /\ layout' = EmptyLayout
  /\ prev_b' = NoCell
  /\ prev_c' = NoCell
  /\ i' = LoopFrom
  /\ backend' = <<>>
  /\ result' = NoResult
  /\ prior' = IF op \in VerifierOps
              THEN <<[result |-> result, backend |-> backend, proof |-> args.proof]>>
              ELSE prior
  /\ UNCHANGED <<reqs, setup, crate, config, held>>

\* ------------------------------------------------------------------ codec
\* Vectors to encode: every field element alone, and the vectors of up to three
\* elements over 0, 1 and the largest field element
RECURSIVE VectorsOver(_, _)
VectorsOver(S, n) ==
  IF n = 0 THEN { <<>> }
  ELSE LET shorter == VectorsOver(S, n - 1) IN
       shorter \cup { Append(v, x) : v \in { w \in shorter : Len(w) = n - 1 }, x \in S }

CodecVectors == { <<z>> : z \in Fr } \cup VectorsOver(SeedValues, 3)

\* bincode::serialize(&InputsSerialisationWrapper(v))
SerializeCall(v) ==
  /\ pc = "idle"
  /\ op' = "serialize"
  /\ args' = [NoArgs EXCEPT !.inputs = v]
  /\ result' = OkProof(MalformedProof, Serialize(v))
  /\ pc' = "serialized"
  /\ UNCHANGED <<reqs, setup, crate, config, instance, layout, prev_b, prev_c, i, backend, held, prior>>

\* bincode::deserialize::<InputsSerialisationWrapper>(..) of the bytes just written
DeserializeCall ==
  /\ pc = "serialized"
  /\ LET d == DecodeInputs(result.inputs[1]) IN
       result' = IF d.result.tag = "None" THEN OkProof(MalformedProof, d.vec)
                 ELSE d.result
  /\ pc' = "done"
  /\ UNCHANGED <<reqs, setup, crate, config, op, args, instance, layout, prev_b, prev_c, i, backend, held, prior>>

\* ------------------------------------------------------- textual inputs
\* What deserialize_circuit_inputs hands back: Ok(map) or the error
InputsResult(d) ==
  IF d.tag = "Ok"
  THEN [tag |-> "Ok", accept |-> FALSE, proof |-> <<>>, inputs |-> <<d.map>>, msg |-> <<>>]
  ELSE Err(d.msg)

\* deserialize_circuit_inputs(ser_inputs)
DeserializeInputsCall(input) ==
  /\ pc = "idle"
  /\ op' = "deserialize_circuit_inputs"
  /\ args' = [NoArgs EXCEPT !.input = input]
  /\ result' = InputsResult(deserialize_circuit_inputs(input))
  /\ pc' = "done"
  /\ UNCHANGED <<reqs, setup, crate, config, instance, layout, prev_b, prev_c, i, backend, held, prior>>

\* ------------------------------------------------------ concurrent requests
\* generate_halo2_proof and verify_halo2_proof called by several requests at a
\* time.  A call builds its circuit, its layouter and its transcript as locals;
\* the SRS and the keys are borrowed and only read.

\* a layouter that writes each row it is given into every request's witness as well
StoreWitness_shared(rs, r, ls) ==
  [q \in DOMAIN rs |->
     IF q = r THEN [rs[q] EXCEPT !.layout = ls]
     ELSE [rs[q] EXCEPT !.layout.advice = Append(@, ls.advice[Len(ls.advice)])]]

\* The layouter of request r takes what a region assigned: it is the request's own
StoreWitness(rs, r, ls) == [rs EXCEPT ![r].layout = ls]

\* Inputs of the concurrent requests
RequestInputs == { [k \in {"out"} |-> <<z>>] : z \in {55 % FieldOrder, 56 % FieldOrder} }
RequestProofs == { ProofOf(synthesize("prove", <<1, 1, 55>>).advice, 0), MalformedProof }
RequestVectors == { <<1, 1, 55>>, <<1, 1, 56>> }

\* generate_halo2_proof(srs, pk, inputs) up to the backend call
RequestProve(r, inputs) ==
  /\ reqs[r].pc = "idle"
  /\ LET g == generate_halo2_proof(crate, inputs) IN
       /\ g.synth
       /\ reqs' = [reqs EXCEPT ![r] = [IdleRequest EXCEPT !.pc = "first_row",
                                                          !.op = "prove",
                                                          !.instance = g.instance]]
  /\ UNCHANGED <<crate, sequential, setup>>

RequestAssignFirstRow(r) ==
  /\ reqs[r].pc = "first_row"
  /\ LET f == assign_first_row(reqs[r].layout, "prove", reqs[r].instance) IN
       reqs' = StoreWitness([reqs EXCEPT ![r].prev_b = f.b_cell,
                                         ![r].prev_c = f.c_cell,
                                         ![r].i = LoopFrom,
                                         ![r].pc = "next_row"], r, f.ls)
  /\ UNCHANGED <<crate, sequential, setup>>

RequestAssignRow(r) ==
  /\ reqs[r].pc = "next_row"
  /\ reqs[r].i < LoopTo
  /\ LET f == assign_row(reqs[r].layout, reqs[r].prev_b, reqs[r].prev_c) IN
       reqs' = StoreWitness([reqs EXCEPT ![r].prev_b = NextPrevB(reqs[r].prev_b, reqs[r].prev_c),
                                         ![r].prev_c = f.c_cell,
                                         ![r].i = @ + 1], r, f.ls)
  /\ UNCHANGED <<crate, sequential, setup>>

RequestExposePublic(r) ==
  /\ reqs[r].pc = "next_row"
  /\ reqs[r].i >= LoopTo
  /\ reqs' = StoreWitness([reqs EXCEPT ![r].pc = "synthesized"], r,
                          expose_public(reqs[r].layout, reqs[r].prev_c, OutSlot))
  /\ UNCHANGED <<crate, sequential, setup>>

\* the backend writes the proof into the request's transcript; into_proof()
RequestProveReturn(r) ==
  /\ reqs[r].pc = "synthesized"
  /\ \E rng \in Rngs(crate, "prove") : \E blind \in rng.draws :
       LET proof == ProofOf(reqs[r].layout.advice, blind) IN
       reqs' = [reqs EXCEPT ![r].transcript = <<proof>>,
                            ![r].blind = blind,
                            ![r].result = OkProof(proof, reqs[r].instance),
                            ![r].pc = "done"]
  /\ UNCHANGED <<crate, sequential, setup>>

\* verify_halo2_proof(srs, vk, proof, inputs): Keccak256Transcript::from_proof
RequestVerify(r, proof, inst) ==
  /\ reqs[r].pc = "idle"
  /\ reqs' = [reqs EXCEPT ![r] = [IdleRequest EXCEPT !.pc = "transcript",
                                                     !.op = "verify",
                                                     !.instance = inst,
                                                     !.given = <<proof>>,
                                                     !.transcript = <<proof>>]]
  /\ UNCHANGED <<crate, sequential, setup>>

\* the backend's verify reads the request's transcript
RequestBackendVerify(r) ==
  /\ reqs[r].pc = "transcript"
  /\ reqs' = [reqs EXCEPT
       ![r].result = verify_halo2_proof(crate, reqs[r].transcript[1], reqs[r].instance).result,
       ![r].pc = "done"]
  /\ UNCHANGED <<crate, sequential, setup>>

\* ------------------------------------------------------------- setup_keys
\* setup_keys(genkey_cmd, srs_filename), up to call_once
SetupKeysCall(t) ==
  /\ setup.callers[t].pc = "idle"
  /\ setup.calls < MaxSetupCalls
  /\ setup' = [setup EXCEPT
       !.calls = @ + 1,
       !.callers[t] = [pc |-> "call_once",
                       once |-> IF OnceIsStatic(crate) THEN "none" ELSE "new",
                       child |-> 0]]
  /\ UNCHANGED <<crate, sequential, reqs>>

\* Once::call_once: runs the closure if the Once is new, returns if it is done,
\* panics if an earlier closure panicked, and blocks while another thread runs
\* the closure
CallOnce(t) ==
  /\ setup.callers[t].pc = "call_once"
  /\ OnceState(t) # "running"
  /\ setup' = IF OnceState(t) = "new"
               THEN SetOnce([setup EXCEPT !.callers[t].pc = "closure"], t, "running")
               ELSE IF OnceState(t) = "done"
               THEN [setup EXCEPT !.callers[t].pc = "returned"]
               ELSE [setup EXCEPT !.callers[t].pc = "panicked"]
  /\ UNCHANGED <<crate, sequential, reqs>>

\* the closure: Command::new("cargo") .. .spawn() starts a key generator
Spawn(t) ==
  /\ setup.callers[t].pc = "closure"
  /\ setup' = [setup EXCEPT
       !.children = Append(@, "running"),
       !.callers[t].child = Len(setup.children) + 1,
       !.callers[t].pc = "waiting"]
  /\ UNCHANGED <<crate, sequential, reqs>>

\* the closure: spawn() fails and expect("Failed to spawn cargo build") panics,
\* which poisons the Once
SpawnFails(t) ==
  /\ setup.callers[t].pc = "closure"
  /\ setup' = SetOnce([setup EXCEPT !.callers[t].pc = "panicked"], t, "poisoned")
  /\ UNCHANGED <<crate, sequential, reqs>>

\* a key generator terminates
ChildExit(n) ==
  /\ n \in 1 .. Len(setup.children)
  /\ setup.children[n] = "running"
  /\ setup' = [setup EXCEPT !.children[n] = "exited"]
  /\ UNCHANGED <<crate, sequential, reqs>>

\* the closure: .wait() returns when the child it spawned has terminated; the
\* closure ends, the Once is done and setup_keys returns
Wait(t) ==
  /\ setup.callers[t].pc = "waiting"
  /\ setup.children[setup.callers[t].child] = "exited"
  /\ setup' = SetOnce([setup EXCEPT !.callers[t].pc = "returned"], t, "done")
  /\ UNCHANGED <<crate, sequential, reqs>>

\* the caller goes on after setup_keys has returned
SetupKeysReturn(t) ==
  /\ setup.callers[t].pc = "returned"
  /\ setup' = [setup EXCEPT !.callers[t] = IdleCaller]
  /\ UNCHANGED <<crate, sequential, reqs>>

Next ==
  \/ \E input \in InputMaps, keys \in KeyFiles : ProveCall(input, keys)
  \/ \E inst \in CircuitInputs : ProveCircuitCall(inst)
  \/ AssignFirstRow
  \/ AssignRow
  \/ ExposePublic
  \/ ProveReturn
  \/ \E proof \in HeldProofs, buf \in VerifierBuffers(HeldInstance), keys \in KeyFiles :
        VerifyCall(proof, buf, keys)
  \/ \E proof \in HeldProofs, inst \in VerifierVectors(HeldInstance) :
        VerifyProofCall(proof, inst)
  \/ Return

Spec == Init /\ [][Next]_vars

\* Synthesis alone, over every declared output for each pair of seeds
SynthNext ==
  \/ \E inst \in PublicInputs : ProveCircuitCall(inst)
  \/ AssignFirstRow
  \/ AssignRow
  \/ ExposePublic
  \/ ProveReturn
  \/ Return

SynthSpec == Init /\ [][SynthNext]_vars

\* The encoding of public inputs alone
CodecNext ==
  \/ \E v \in CodecVectors : SerializeCall(v)
  \/ DeserializeCall
  \/ Return

CodecSpec == Init /\ [][CodecNext]_vars

\* Proofs asked for one after another by one caller
RepeatedInputs == { [k \in {"out"} |-> << v >>] : v \in { <<"5", "5">>, <<"5", "6">> } }
RepeatedCircuits == { <<1, 1, 55>>, <<1, 1, 56>>, <<0, 1, 34>> }

RepeatNext ==
  \/ \E input \in RepeatedInputs : ProveCall(input, <<TRUE, TRUE>>)
  \/ \E input \in RepeatedInputs : ProveAgainCall(input, <<TRUE, TRUE>>)
  \/ \E inst \in RepeatedCircuits : ProveCircuitCall(inst)
  \/ \E inst \in RepeatedCircuits : ProveCircuitAgainCall(inst)
  \/ AssignFirstRow
  \/ AssignRow
  \/ ExposePublic
  \/ ProveReturn
  \/ Return

RepeatSpec == Init /\ [][RepeatNext]_vars

\* Requests running concurrently
ConcurrentNext ==
  \E r \in Requests :
    \/ \E inputs \in RequestInputs : RequestProve(r, inputs)
    \/ RequestAssignFirstRow(r)
    \/ RequestAssignRow(r)
    \/ RequestExposePublic(r)
    \/ RequestProveReturn(r)
    \/ \E proof \in RequestProofs, inst \in RequestVectors : RequestVerify(r, proof, inst)
    \/ RequestBackendVerify(r)

ConcurrentSpec == Init /\ [][ConcurrentNext]_vars

\* Synthesis with a layouter that may fail at any step
OrderNext ==
  \/ \E inst \in CircuitInputs : ProveCircuitCall(inst)
  \/ AssignFirstRow
  \/ AssignRow
  \/ ExposePublic
  \/ \E e \in LayouterErrors : SynthesisError(e)
  \/ ProveReturn
  \/ Return

OrderSpec == Init /\ [][OrderNext]_vars

\* The calls of setup_keys of one process
SetupNext ==
  \/ \E t \in Callers : SetupKeysCall(t)
  \/ \E t \in Callers : CallOnce(t)
  \/ \E t \in Callers : Spawn(t)
  \/ \E t \in Callers : SpawnFails(t)
  \/ \E n \in 1 .. MaxSetupCalls : ChildExit(n)
  \/ \E t \in Callers : Wait(t)
  \/ \E t \in Callers : SetupKeysReturn(t)

SetupSpec == Init /\ [][SetupNext]_vars

\* The parsing of the textual inputs alone
InputsNext ==
  \/ \E input \in ParseMaps : DeserializeInputsCall(input)
  \/ Return

InputsSpec == Init /\ [][InputsNext]_vars


\* ================================================================= claims
\* term n of the recurrence seeded with x, y (term 0 = x, term 1 = y)
RECURSIVE Term(_, _, _)
Term(x, y, n) ==
  IF n = 0 THEN x
  ELSE IF n = 1 THEN y
  ELSE (Term(x, y, n - 1) + Term(x, y, n - 2)) % FieldOrder

\* The verifier call at hand was given the proof the caller holds and, as public
\* inputs, the vector v (encoded, for verify)
VerifiesHeldProofWith(v) ==
  /\ pc = "done"
  /\ op \in VerifierOps
  /\ held # <<>>
  /\ args.proof = <<held[1].proof>>
  /\ args.keys = <<TRUE, TRUE>>
  /\ \/ op = "verify" /\ args.inputs = Serialize(v)
     \/ op = "verify_halo2_proof" /\ args.inputs = v

\* C1: a proof made for seeds (1,1) and declared output 55 is accepted when the
\* verifier is given the public inputs [1,1,55] the prover returned.
C1_RoundTripAccepted ==
  ( /\ VerifiesHeldProofWith(<<1, 1, 55>>)
    /\ held[1].instance = <<1, 1, 55>>
    /\ \/ op = "verify" /\ args.inputs = held[1].returned
       \/ op = "verify_halo2_proof" )
  => result = OkBool(TRUE)

C1_Witness ==
  /\ VerifiesHeldProofWith(<<1, 1, 55>>)
  /\ crate = "generic"
  /\ op = "verify"
  /\ held[1].via = "prove"
  /\ held[1].instance = <<1, 1, 55>>
  /\ args.inputs = held[1].returned
  /\ result.tag = "Ok" /\ result.accept

C3_TamperedOutputRejected ==
  ( /\ VerifiesHeldProofWith(<<1, 1, 56>>)
    /\ held[1].instance = <<1, 1, 56>> )
  => /\ result.tag \in {"Ok", "Err"}
     /\ ~(result.tag = "Ok" /\ result.accept)

\* C4: a verifier call reports acceptance, Ok(true), only if the backend's verify
\* returned success.
C4_AcceptOnlyIfBackendAccepts ==
  ( /\ pc = "done"
    /\ op \in VerifierOps
    /\ result.tag = "Ok"
    /\ result.accept )
  => /\ backend # <<>>
     /\ backend[1].result = "Ok"

\* C5: for every pair of seeds and every declared output z, the synthesized
\* witness satisfies the gate on every enabled row and every equality constraint
\* if and only if z is the final term of the recurrence (term 9, counting the
\* seeds as terms 0 and 1), which is the c value of the last synthesized row.
C5_SatisfiedIffFinalTerm ==
  ( /\ pc \in {"synthesized", "done"}
    /\ op = "circuit"
    /\ Len(instance) = 3 )
  => LET shape == [selector |-> layout.selector, copies |-> layout.copies]
         final == Term(instance[1], instance[2], 9)
     IN /\ CellValue(layout, prev_c) = final
        /\ prev_c = Cell("c", Len(layout.advice) - 1)
        /\ Satisfied(layout.advice, shape, instance) <=> (instance[3] = final)

C5_Witness ==
  /\ pc = "synthesized"
  /\ op = "circuit"
  /\ Len(instance) = 3
  /\ instance[1] = FieldOrder - 1
  /\ instance[2] = 1
  /\ instance[3] = Term(FieldOrder - 1, 1, 9)
  /\ Satisfied(layout.advice, [selector |-> layout.selector, copies |-> layout.copies],
               instance)

\* C6: encoding a public input vector and decoding the bytes yields a vector of
\* the same length with the same field elements in the same order, for every
\* field element, 0 and the largest one included.
C6_RoundTrip ==
  (pc = "done" /\ op = "serialize")
  => /\ result.tag = "Ok"
     /\ Len(result.inputs[1]) = Len(args.inputs)
     /\ \A k \in 1 .. Len(args.inputs) : result.inputs[1][k] = args.inputs[k]

C6_Witness ==
  /\ pc = "done"
  /\ op = "serialize"
  /\ args.inputs = <<0, FieldOrder - 1, 1>>
  /\ result.inputs = <<args.inputs>>

\* The elements an encoded buffer holds: those its length prefix announces and
\* whose bytes are all there
HeldElements(buf) ==
  IF Len(buf) < LenBytes THEN 0
  ELSE LET announced == LeValue(Take(buf, LenBytes))
           whole == (Len(buf) - LenBytes) \div ElemBytes
       IN IF announced < whole THEN announced ELSE whole

ElementBytes(buf, k) ==
  SubSeq(buf, LenBytes + (k - 1) * ElemBytes + 1, LenBytes + k * ElemBytes)

HasNonCanonicalElement(buf) ==
  \E k \in 1 .. HeldElements(buf) : LeValue(ElementBytes(buf, k)) >= FieldOrder

\* C7: verify, given encoded public inputs that hold fewer than 3 elements or an
\* element that is no canonical encoding, returns an error value: it does not
\* panic and hands no vector on to the backend.
C7_BadBufferIsError ==
  ( /\ pc = "done"
    /\ op = "verify"
    /\ args.keys = <<TRUE, TRUE>>
    /\ HeldElements(args.inputs) < 3 \/ HasNonCanonicalElement(args.inputs) )
  => /\ result.tag = "Err"
     /\ backend = <<>>

\* C8: a verifier call on a malformed proof and a verifier call that fails the
\* consistency check never return the same value.
C8_FailureKindsDistinct ==
  ( /\ pc = "done"
    /\ op \in VerifierOps
    /\ backend # <<>>
    /\ backend[1].result = ConsistencyError(BackendOf(crate))
    /\ prior # <<>>
    /\ prior[1].backend # <<>>
    /\ prior[1].backend[1].result = TranscriptError(BackendOf(crate))
    /\ Len(backend[1].instance) = 3
    /\ Len(prior[1].backend[1].instance) = 3 )
  => result # prior[1].result

\* C9: no call of prove or verify ends in a panic: every failure is returned as an
\* error value.
C9_NoPanic ==
  (pc = "done" /\ op \in {"prove", "verify"}) => result.tag # "Panic"

\* The input map has no "out" entry, or an empty one
NoOut(input) == "out" \notin DOMAIN input \/ Len(input["out"]) = 0

\* Every string of the input map is a u128 in decimal
AllParse(input) ==
  \A k \in DOMAIN input : \A j \in 1 .. Len(input[k]) : u128_from_str(input[k][j]).ok

InSynthesis == pc \in {"first_row", "next_row", "synthesized"}

\* C10 as stated: without an "out" value prove returns the error "Failed to get
\* `out` value", the backend is not invoked and no bytes are returned (the SRS and
\* the key being loadable).
C10_AsStated ==
  ( /\ pc = "done"
    /\ op = "prove"
    /\ args.keys = <<TRUE, TRUE>>
    /\ NoOut(args.input) )
  => /\ result.tag = "Err"
     /\ result.msg[Len(result.msg)] = "Failed to get out value"
     /\ backend = <<>>
     /\ result.proof = <<>>
     /\ result.inputs = <<>>

\* C10, amended: without an "out" value prove never invokes the backend and
\* returns no proof bytes and no public input bytes; when the SRS and the key
\* load it returns an error, which is "Failed to get `out` value" if every string
\* of the map parses as u128 and the deserialization error otherwise.
C10_NoOutIsError ==
  (op = "prove" /\ NoOut(args.input))
  => /\ ~InSynthesis
     /\ backend = <<>>
     /\ result.proof = <<>>
     /\ result.inputs = <<>>
     /\ (pc = "done" /\ args.keys = <<TRUE, TRUE>>)
          => /\ result.tag = "Err"
             /\ IF AllParse(args.input)
                THEN result.msg[Len(result.msg)] = "Failed to get out value"
                ELSE result.msg[1] = "Failed to deserialize circuit inputs: "

C10_Witness ==
  /\ pc = "done"
  /\ op = "prove"
  /\ crate = "generic"
  /\ args.keys = <<TRUE, TRUE>>
  /\ args.input = [k \in {"out"} |-> <<>>]
  /\ result = Err(<<"Failed to generate the proof: ", "Failed to get out value">>)

\* ---------------------------------------------------------------------- C11
\* The decimal value of a string of digits, most significant digit first
RECURSIVE DecimalOf(_)
DecimalOf(s) ==
  IF s = <<>> THEN 0
  ELSE DecimalOf(SubSeq(s, 1, Len(s) - 1)) * 10 + DigitValue(s[Len(s)])

\* The digits of a string, without the sign u128::from_str accepts
DigitsOf(s) == IF s # <<>> /\ s[1] = "+" THEN Tail(s) ELSE s

\* A string that denotes a u128 in decimal
ValidDecimal(s) ==
  /\ DigitsOf(s) # <<>>
  /\ \A k \in 1 .. Len(DigitsOf(s)) : IsDigit(DigitsOf(s)[k])
  /\ DecimalOf(DigitsOf(s)) <= MaxU128

AllValid(input) ==
  \A k \in DOMAIN input : \A j \in 1 .. Len(input[k]) : ValidDecimal(input[k][j])

\* C11: deserialize_circuit_inputs returns, when every string of every entry is
\* a u128 in decimal, a map with the same keys whose lists have the same lengths
\* and hold, in the same order, the field elements equal to the decimal values;
\* when some string is not, it returns an error and no map.
C11_InputsParsed ==
  ( pc = "done" /\ op = "deserialize_circuit_inputs" ) =>
    IF AllValid(args.input)
    THEN /\ result.tag = "Ok"
         /\ Len(result.inputs) = 1
         /\ LET m == result.inputs[1] IN
              /\ DOMAIN m = DOMAIN args.input
              /\ \A k \in DOMAIN m :
                   /\ Len(m[k]) = Len(args.input[k])
                   /\ \A j \in 1 .. Len(m[k]) :
                        /\ m[k][j] \in Fr
                        /\ m[k][j] = DecimalOf(DigitsOf(args.input[k][j]))
    ELSE /\ result.tag = "Err"
         /\ result.inputs = <<>>

\* a map of two entries, one with two strings, parsed in order
C11_Witness ==
  /\ pc = "done"
  /\ op = "deserialize_circuit_inputs"
  /\ DOMAIN args.input = {"out", "x"}
  /\ args.input["out"] = << <<"5", "5">>, <<"1">> >>
  /\ args.input["x"] = << <<"+", "2">> >>
  /\ result.tag = "Ok"
  /\ result.inputs[1]["out"] = <<55, 1>>
  /\ result.inputs[1]["x"] = <<2>>

\* ---------------------------------------------------------------------- C12
\* The output the caller of prove declared: the first string under "out"
DeclaredOut(input) == DecimalOf(DigitsOf(input["out"][1]))

\* C12: when proof generation succeeds, the public input vector returned next to
\* the proof is [1, 1, out] in that order, out being the first element of the
\* caller's "out" input whether or not it is the computed term, and it is the
\* vector the circuit was synthesized with and the backend proved against.
C12_ReturnedPublicInput ==
  ( pc = "done" /\ op = "prove" /\ result.tag = "Ok" ) =>
    /\ Len(held) = 1
    /\ held[1].instance = <<1, 1, DeclaredOut(args.input)>>
    /\ instance = held[1].instance
    /\ Len(backend) = 1
    /\ backend[1].fn = "prove"
    /\ backend[1].instance = held[1].instance
    /\ result.proof = <<held[1].proof>>
    /\ Deserialize(result.inputs[1]).tag = "Ok"
    /\ Deserialize(result.inputs[1]).vec = held[1].instance

\* a proof for a declared output that is not the computed term
C12_Witness ==
  /\ pc = "done"
  /\ op = "prove"
  /\ result.tag = "Ok"
  /\ args.input["out"] = << <<"5", "6">> >>
  /\ held[1].instance = <<1, 1, 56>>
  /\ held[1].proof.advice[Len(held[1].proof.advice)].c = 55

C14_BadWitnessFailsProve ==
  ( /\ pc = "done"
    /\ op = "prove"
    /\ Len(layout.advice) > 0
    /\ ~Satisfied(layout.advice, layout, instance) )
  => /\ result.tag = "Err"
     /\ result.proof = <<>>
     /\ held = <<>>

\* ---------------------------------------------------------------------- C15
\* C15: every public input vector handed to the backend by prove or verify has
\* exactly 3 elements.
C15_ThreePublicInputs ==
  ( op \in {"prove", "verify"} ) =>
    \A k \in 1 .. Len(backend) : Len(backend[k].instance) = 3

\* ---------------------------------------------------------------------- C16
\* What a request returns when it runs alone, from start to end
Alone(q) ==
  IF q.op = "prove"
  THEN OkProof(ProofOf(synthesize("prove", q.instance).advice, q.blind), q.instance)
  ELSE verify_halo2_proof(crate, q.given[1], q.instance).result

\* C16: whatever way the steps of concurrent prove and verify requests
\* interleave, each request that has finished has the result it has when it
\* runs alone: its witness and its transcript are its own.
C16_InterleavingKeepsResults ==
  \A r \in Requests :
    reqs[r].pc = "done" =>
      /\ reqs[r].result = Alone(reqs[r])
      /\ reqs[r].op = "prove" => reqs[r].transcript = reqs[r].result.proof

\* a prove request has finished while another one, for another declared output,
\* is in the middle of its synthesis
C16_Witness ==
  /\ reqs[1].pc = "done"
  /\ reqs[1].op = "prove"
  /\ reqs[1].instance = <<1, 1, 55>>
  /\ reqs[1].result.tag = "Ok"
  /\ reqs[2].pc = "next_row"
  /\ reqs[2].i = 6
  /\ reqs[2].instance = <<1, 1, 56>>

\* ---------------------------------------------------------------------- C17
Rows == Len(layout.advice)

\* the two equality constraints added last
LastCopies(ls) == SubSeq(ls.copies, Len(ls.copies) - 1, Len(ls.copies))

\* The steps of synthesize other than an assign_row call: assign_first_row is the
\* step that starts from the empty layout and it alone ties cells to instance
\* rows 0 and 1; expose_public runs after the whole loop and nothing of the
\* synthesis changes after it; a step that fails leaves the layout as it was,
\* synthesize returns the layouter's error and nothing runs after it.
OrderOfOtherSteps ==
  /\ (Rows = 0 /\ layout' # layout) =>
       /\ pc = "first_row" /\ pc' = "next_row"
       /\ layout' = assign_first_row(EmptyLayout, "prove", instance).ls
  /\ (Rows > 0 /\ layout' # layout /\ pc' # "idle") =>
       \A k \in Len(layout.copies) + 1 .. Len(layout'.copies) :
          layout'.copies[k][1].col # "instance"
  /\ (pc' = "synthesized" /\ pc # "synthesized") =>
       /\ Rows = 1 + (LoopTo - LoopFrom)
       /\ layout'.copies = Append(layout.copies, <<prev_c, Cell("instance", OutSlot)>>)
       /\ layout'.advice = layout.advice
  /\ pc = "synthesized" => (layout' = layout \/ pc' = "idle")
  /\ (pc' = "failed" /\ pc # "failed") =>
       /\ layout' = layout
       /\ \E e \in LayouterErrors : result' = Err(<<e>>)
  /\ pc = "failed" => pc' = "idle"

\* C17 as stated: every assign_row call receives the b cell and the c cell of the
\* row just before the one it assigns.
C17_AsStated ==
  [][ /\ OrderOfOtherSteps
      /\ (Rows > 0 /\ Len(layout'.advice) > Rows) =>
           /\ Len(layout'.advice) = Rows + 1
           /\ LastCopies(layout') = << <<Cell("b", Rows - 1), Cell("a", Rows)>>,
                                       <<Cell("c", Rows - 1), Cell("b", Rows)>> >>
    ]_vars

\* C17: synthesize runs assign_first_row once, then the assign_row calls one
\* after another, then expose_public once as the last step, and stops at the
\* first step that fails, returning its error.  The first assign_row call
\* receives row 0's b and c cells; every later call receives, as prev_b, the c
\* cell of the row two before the one it assigns (the cell the previous call
\* received as prev_c) and, as prev_c, the c cell of the row just before.
C17_FixedOrder ==
  [][ /\ OrderOfOtherSteps
      /\ (Rows > 0 /\ Len(layout'.advice) > Rows) =>
           /\ Len(layout'.advice) = Rows + 1
           /\ LastCopies(layout') =
                << <<IF Rows = 1 THEN Cell("b", 0) ELSE Cell("c", Rows - 2), Cell("a", Rows)>>,
                   <<Cell("c", Rows - 1), Cell("b", Rows)>> >>
           /\ prev_b' = prev_c
           /\ prev_c' = Cell("c", Rows)
    ]_vars

\* the whole synthesis has run; the third row was given the c cells of rows 0 and 1
C17_Witness ==
  /\ pc = "synthesized"
  /\ Rows = 8
  /\ layout.copies[5] = <<Cell("c", 0), Cell("a", 2)>>
  /\ layout.copies[6] = <<Cell("c", 1), Cell("b", 2)>>
  /\ layout.copies[Len(layout.copies)] = <<Cell("c", 7), Cell("instance", 2)>>

\* ---------------------------------------------------------------------- C18
HasCopy(from, to) == \E k \in 1 .. Len(layout.copies) : layout.copies[k] = <<from, to>>

\* the values of rows r - 1 and r are chained, and row r holds its sum
Chained(r) ==
  LET prev == layout.advice[r]
      row == layout.advice[r + 1]
  IN /\ row.a = prev.b
     /\ row.b = prev.c
     /\ row.c = (row.a + row.b) % FieldOrder
     /\ row.c = (prev.c + prev.b) % FieldOrder

\* C18 as stated: 7 assign_row calls, each registering equality constraints from
\* the b cell and the c cell of the row before the one it assigns.
C18_AsStated ==
  ( op = "circuit" /\ pc \in {"next_row", "synthesized"} ) =>
    /\ Rows = 1 + (i - LoopFrom)
    /\ pc = "synthesized" => Rows - 1 = 7
    /\ \A r \in 1 .. Rows - 1 :
         /\ HasCopy(Cell("b", r - 1), Cell("a", r))
         /\ HasCopy(Cell("c", r - 1), Cell("b", r))
         /\ Chained(r)

\* C18: assign_row is invoked exactly 7 times per synthesis; the call that
\* assigns row r registers an equality constraint between the cell it is given
\* as prev_b (row 0's b for r = 1, the c cell of row r - 2 after that) and the
\* new a, and one between the c cell of row r - 1 and the new b, and assigns
\* c = a + b in the field, so that a[r] = b[r-1], b[r] = c[r-1] and
\* c[r] = c[r-1] + b[r-1] as values.
C18_RowsChained ==
  ( op = "circuit" /\ pc \in {"next_row", "synthesized"} ) =>
    /\ Rows = 1 + (i - LoopFrom)
    /\ pc = "synthesized" => Rows - 1 = 7
    /\ Len(layout.copies) =
         2 * Rows + (IF pc = "synthesized" THEN 1 ELSE 0)
    /\ \A r \in 1 .. Rows - 1 :
         /\ HasCopy(IF r = 1 THEN Cell("b", 0) ELSE Cell("c", r - 2), Cell("a", r))
         /\ HasCopy(Cell("c", r - 1), Cell("b", r))
         /\ Chained(r)

\* seven rows after the first, seeded with p - 1 and 1 so that the sums wrap
C18_Witness ==
  /\ op = "circuit"
  /\ pc = "synthesized"
  /\ Rows - 1 = 7
  /\ layout.advice[1].a = FieldOrder - 1
  /\ layout.advice[1].b = 1
  /\ layout.advice[2] = [a |-> 1, b |-> 0, c |-> 1]
  /\ HasCopy(Cell("c", 5), Cell("a", 7))
  /\ HasCopy(Cell("c", 6), Cell("b", 7))

\* ---------------------------------------------------------------------- C19
\* the public input in slot k; the instance column holds 0 beyond the vector
Slot(k) == IF k < Len(instance) THEN instance[k + 1] ELSE 0

\* C19: after assign_first_row, row 0 holds a = public input slot 0 and
\* b = slot 1, each tied to its instance cell by an equality constraint, and
\* c = a + b; the selector is enabled on row 0; the handles returned are those
\* of the three cells of row 0.
C19_FirstRow ==
  ( op = "circuit" /\ pc = "next_row" /\ i = LoopFrom ) =>
    /\ layout.advice = << [a |-> Slot(0), b |-> Slot(1), c |-> (Slot(0) + Slot(1)) % FieldOrder] >>
    /\ layout.copies = << <<Cell("instance", 0), Cell("a", 0)>>,
                          <<Cell("instance", 1), Cell("b", 0)>> >>
    /\ layout.selector = <<0>>
    /\ prev_b = Cell("b", 0)
    /\ prev_c = Cell("c", 0)
    /\ LET f == assign_first_row(EmptyLayout, "prove", instance) IN
         /\ f.a_cell = Cell("a", 0)
         /\ f.b_cell = prev_b
         /\ f.c_cell = prev_c
         /\ f.ls = layout

\* the first row for the seeds p - 1 and 1: the sum wraps to 0
C19_Witness ==
  /\ op = "circuit"
  /\ pc = "next_row"
  /\ i = LoopFrom
  /\ Len(instance) = 3
  /\ instance[1] = FieldOrder - 1
  /\ instance[2] = 1
  /\ layout.advice = << [a |-> FieldOrder - 1, b |-> 1, c |-> 0] >>

\* ---------------------------------------------------------------------- C20
\* expose_public after a loop that started at k, that is of LoopTo - k rows,
\* binds the c cell of the last row, which holds the last term
BindsLastRow(k) ==
  LET f == assign_first_row(EmptyLayout, "prove", <<1, 1, 0>>)
      l == SynthesizeLoop(f.ls, f.b_cell, f.c_cell, k)
      n == Len(l.ls.advice)
      e == expose_public(l.ls, l.prev_c, OutSlot)
  IN /\ n = 1 + (LoopTo - k)
     /\ e.advice = l.ls.advice
     /\ e.copies = Append(l.ls.copies, <<Cell("c", n - 1), Cell("instance", 2)>>)
     /\ e.advice[n].c = Term(1, 1, n + 1)

\* C20: the expose_public step adds one equality constraint and nothing else,
\* between the c cell of the last synthesized row and instance row 2, and it
\* assigns no cell; the cell is the last row's c for every number of rows the
\* loop may produce.
C20_OutputBound ==
  [][ (pc = "next_row" /\ pc' = "synthesized") =>
        /\ layout'.advice = layout.advice
        /\ layout'.selector = layout.selector
        /\ layout'.copies = Append(layout.copies, <<Cell("c", Rows - 1), Cell("instance", 2)>>)
        /\ \A k \in 1 .. Len(layout.copies) : layout.copies[k][2] # Cell("instance", 2)
        /\ \A k \in LoopFrom .. LoopTo : BindsLastRow(k)
    ]_vars

\* the output of a synthesis for [1, 1, 55] is bound: the c cell of row 7, holding 55
C20_Witness ==
  /\ pc = "synthesized"
  /\ instance = <<1, 1, 55>>
  /\ layout.copies[Len(layout.copies)] = <<Cell("c", Rows - 1), Cell("instance", 2)>>
  /\ Rows = 8
  /\ layout.advice[Rows].c = 55
  /\ Cardinality({ k \in 1 .. Len(layout.copies) :
                     Cell("instance", 2) \in {layout.copies[k][1], layout.copies[k][2]} }) = 1

\* ---------------------------------------------------------------------- C21
\* C21 as stated: a completed synthesis has allocated 9 rows, row 0 and rows 1
\* to 8, and they fit in the 2^k rows.
C21_AsStated ==
  pc = "synthesized" =>
    /\ Rows = 9
    /\ Rows <= 2 ^ CircuitK

\* C21: a completed synthesis has allocated 8 rows, row 0 as the seed row and
\* rows 1 to 7 as recurrence rows, one for each of the 7 iterations of the loop,
\* and they fit in the 2^k = 16 rows given by k = 4.
C21_EightRows ==
  pc = "synthesized" =>
    /\ Rows = 8
    /\ Rows = 1 + (LoopTo - LoopFrom)
    /\ layout.selector = [r \in 1 .. 8 |-> r - 1]
    /\ \A n \in 1 .. Len(layout.copies) : \A side \in 1 .. 2 :
         layout.copies[n][side].col # "instance" => layout.copies[n][side].row \in 0 .. 7
    /\ 2 ^ CircuitK = 16
    /\ Rows <= 2 ^ CircuitK

\* the last of the rows is row 7
C21_Witness ==
  /\ pc = "synthesized"
  /\ Len(layout.advice) = 8
  /\ prev_c = Cell("c", 7)
  /\ i = LoopTo

\* ---------------------------------------------------------------------- C22
\* how many times the selector was enabled on a row
EnabledTimes(row) == Cardinality({n \in 1 .. Len(layout.selector) : layout.selector[n] = row})

\* C22: at every point during and after synthesis the selector is enabled
\* exactly once on every row that has been assigned, and on no other row.
C22_SelectorOncePerRow ==
  /\ \A row \in 0 .. Rows - 1 : EnabledTimes(row) = 1
  /\ \A n \in 1 .. Len(layout.selector) : layout.selector[n] \in 0 .. Rows - 1
  /\ Len(layout.selector) = Rows

\* in the middle of the loop, four rows assigned
C22_Witness ==
  /\ pc = "next_row"
  /\ Rows = 4
  /\ layout.selector = <<0, 1, 2, 3>>

\* ---------------------------------------------------------------------- C23
\* the equality constraints that involve a cell of the instance column
InstanceCopies ==
  {n \in 1 .. Len(layout.copies) :
     layout.copies[n][1].col = "instance" \/ layout.copies[n][2].col = "instance"}

\* the constraints that bind instance slot k, as unordered pairs with the other cell
BoundTo(k) ==
  {layout.copies[n][2] : n \in {m \in InstanceCopies : layout.copies[m][1] = Cell("instance", k)}}
  \cup
  {layout.copies[n][1] : n \in {m \in InstanceCopies : layout.copies[m][2] = Cell("instance", k)}}

\* C23: when synthesize has completed, instance slot 0 is bound to row 0's a,
\* slot 1 to row 0's b and slot 2 to the last row's c; each by one equality
\* constraint, and no slot other than 0, 1, 2 is bound.
C23_InstanceBindings ==
  pc = "synthesized" =>
    /\ BoundTo(0) = {Cell("a", 0)}
    /\ BoundTo(1) = {Cell("b", 0)}
    /\ BoundTo(2) = {Cell("c", Rows - 1)}
    /\ Cardinality(InstanceCopies) = 3
    /\ \A n \in InstanceCopies : \A side \in 1 .. 2 :
         layout.copies[n][side].col = "instance" => layout.copies[n][side].row \in 0 .. 2

\* a completed synthesis with the third binding on the c cell of row 7
C23_Witness ==
  /\ pc = "synthesized"
  /\ Cell("c", 7) \in BoundTo(2)
  /\ Cell("a", 0) \in BoundTo(0)
  /\ Cell("b", 0) \in BoundTo(1)

\* ---------------------------------------------------------------------- C24
\* the backend's prove has been invoked and has not failed
ProveInvoked ==
  /\ backend # <<>>
  /\ backend[1].fn = "prove"
  /\ pc \in {"first_row", "next_row", "synthesized", "done"}

\* C24: whenever the backend's prove is invoked the witness is total: the cells
\* a, b and c of every synthesized row hold a field value, none is unknown,
\* whatever public_input the circuit value was built with.
C24_WitnessTotal ==
  ProveInvoked =>
    \A n \in 1 .. Len(layout.advice) :
      /\ layout.advice[n].a \in Fr
      /\ layout.advice[n].b \in Fr
      /\ layout.advice[n].c \in Fr

\* prove of plonk_fibonacci, whose circuit value is FibonacciCircuit::default(),
\* with all rows synthesized
C24_Witness ==
  /\ crate = "plonk"
  /\ op = "prove"
  /\ pc = "synthesized"
  /\ ProveInvoked
  /\ Len(layout.advice) = 8
  /\ layout.advice[8].c = 55

\* ---------------------------------------------------------------------- C25
\* the elements of a sequence
Elements(seq) == {seq[n] : n \in 1 .. Len(seq)}

\* the columns of the cells the layouter has tied by equality constraints
CopiedColumns ==
  UNION {{layout.copies[n][1].col, layout.copies[n][2].col} : n \in 1 .. Len(layout.copies)}

\* C25: configure allocates exactly three advice columns, one instance column
\* and one selector, enables equality on all four columns and registers exactly
\* one gate, selector * (a + b - c) = 0 over the same row; the Config the chip
\* holds is the one configure returned in every state of every synthesis.
C25_Configure ==
  /\ config = configure
  /\ Len(config.advice) = 3
  /\ Cardinality(Elements(config.advice)) = 3
  /\ Len(config.instance) = 1
  /\ Len(config.selector) = 1
  /\ Len(config.equality) = 4
  /\ Elements(config.equality) = Elements(config.advice) \cup Elements(config.instance)
  /\ Len(config.gates) = 1
  /\ config.gates[1].selector = config.selector[1]
  /\ config.gates[1].rotation = 0
  /\ <<config.gates[1].a, config.gates[1].b, config.gates[1].c>> = <<1, 1, -1>>
  /\ CopiedColumns \subseteq Elements(config.equality)
  /\ \A n \in 1 .. Len(layout.advice) :
       GateHolds(layout.advice, n - 1)
         <=> (layout.advice[n].a + layout.advice[n].b - layout.advice[n].c) % FieldOrder = 0

\* a synthesis that has used all four columns in equality constraints
C25_Witness ==
  /\ pc = "synthesized"
  /\ config = configure
  /\ CopiedColumns = {"a", "b", "c", "instance"}
  /\ Rows = 8

\* ---------------------------------------------------------------------- C26
\* the equality constraint n of the layout holds under the public inputs
CopyHolds(n) ==
  ValueAt(layout.advice, instance, layout.copies[n][1])
    = ValueAt(layout.advice, instance, layout.copies[n][2])

\* the output equality: the last row's c against instance slot 2
OutputCopy == <<Cell("c", Rows - 1), Cell("instance", OutSlot)>>

\* C26: for every public input vector the synthesized witness satisfies the
\* add gate on every row and every row-to-row copy constraint (and the two
\* bindings of row 0); the only constraint it can violate is the output equality
\* between the last row's c and public input slot 2.
C26_OnlyOutputCanFail ==
  pc = "synthesized" =>
    /\ \A n \in 1 .. Len(layout.selector) : GateHolds(layout.advice, layout.selector[n])
    /\ \A row \in 0 .. Rows - 1 : GateHolds(layout.advice, row)
    /\ \A n \in 1 .. Len(layout.copies) : layout.copies[n] # OutputCopy => CopyHolds(n)
    /\ layout.copies[Len(layout.copies)] = OutputCopy
    /\ Satisfied(layout.advice, [selector |-> layout.selector, copies |-> layout.copies],
                 instance)
         <=> CopyHolds(Len(layout.copies))

\* a synthesized witness that violates the output equality and nothing else
C26_Witness ==
  /\ pc = "synthesized"
  /\ Len(layout.copies) = 17
  /\ ~CopyHolds(17)
  /\ \A n \in 1 .. 16 : CopyHolds(n)
  /\ \A row \in 0 .. 7 : GateHolds(layout.advice, row)

\* ---------------------------------------------------------------------- C27
\* the public inputs of the earlier synthesis whose proof the caller holds
EarlierInstance == prior[1].backend[1].instance

\* the two syntheses were given public inputs that agree on slots 0 and 1
SameSeeds ==
  /\ Len(instance) >= 2
  /\ Len(EarlierInstance) >= 2
  /\ instance[1] = EarlierInstance[1]
  /\ instance[2] = EarlierInstance[2]

\* C27: the advice values synthesize assigns depend only on public input slots
\* 0 and 1: two syntheses whose public inputs agree on these slots assign the
\* same values to every advice cell of every row, whatever slot 2 holds.
C27_AdviceFromSeedsOnly ==
  (prior # <<>> /\ pc = "synthesized" /\ SameSeeds) =>
    /\ layout.advice = prior[1].proof[1].advice
    /\ Len(layout.advice) = 8

\* a second synthesis with the same seeds and another slot 2
C27_Witness ==
  /\ prior # <<>>
  /\ pc = "synthesized"
  /\ SameSeeds
  /\ Len(instance) = 3
  /\ Len(EarlierInstance) = 3
  /\ instance[3] # EarlierInstance[3]
  /\ layout.advice = prior[1].proof[1].advice

\* ---------------------------------------------------------------------- C28
\* the shape of a layout: the rows with the selector on and the tied cell pairs
ShapeOf(ls) == [selector |-> ls.selector, copies |-> ls.copies]

\* C28: the circuit shape produced by synthesize is the same for every public
\* input vector, including the empty vector used at key generation, so the keys
\* preprocessed by the key generator of any crate describe the synthesis of any
\* other public input, and a witness is judged under them as under its own shape.
C28_ShapeIndependentOfInputs ==
  pc = "synthesized" =>
    /\ ShapeOf(layout) = ShapeOf(synthesize("keygen", <<>>))
    /\ \A c \in Crates : ShapeOf(layout) = VerifierParam(c)
    /\ \A v \in CircuitInputs :
         /\ ShapeOf(layout) = ShapeOf(synthesize("keygen", v))
         /\ ShapeOf(layout) = ShapeOf(synthesize("prove", v))
    /\ Satisfied(layout.advice, VerifierParam(crate), instance)
         <=> Satisfied(layout.advice, ShapeOf(layout), instance)

\* a synthesis over public inputs other than the ones the keys were made from
C28_Witness ==
  /\ pc = "synthesized"
  /\ instance = <<0, 1, 34>>
  /\ instance # KeygenInput(crate)
  /\ ShapeOf(layout) = VerifierParam(crate)
  /\ Satisfied(layout.advice, VerifierParam(crate), instance)

\* ---------------------------------------------------------------------- C29
\* the backend was called and accepted
BackendAccepted == backend # <<>> /\ backend[1].fn = "verify" /\ backend[1].result = "Ok"

\* C29: the verify of fibonacci_circuit, with its key files in place, never
\* returns Ok(false): it returns Ok(true) exactly when the backend accepts and
\* an Err value in every other case, backend rejection or undecodable public
\* inputs.
C29_VerifyOkTrueOrErr ==
  ( /\ crate = "generic"
    /\ pc = "done"
    /\ op = "verify"
    /\ args.keys = <<TRUE, TRUE>> )
  => /\ result # OkBool(FALSE)
     /\ result = OkBool(TRUE) <=> BackendAccepted
     /\ ~BackendAccepted => result.tag = "Err"

\* ---------------------------------------------------------------------- C30
\* the key generators that have not terminated
RunningChildren == {n \in 1 .. Len(setup.children) : setup.children[n] = "running"}

\* C30: within one process, repeated calls of setup_keys spawn the
\* key-generation command at most once, and every call returns only after that
\* key-generation process has terminated.
C30_SpawnedAtMostOnce ==
  /\ Len(setup.children) <= 1
  /\ \A t \in Callers :
       setup.callers[t].pc = "returned" =>
         /\ Len(setup.children) = 1
         /\ RunningChildren = {}

====
